---- MODULE Spec2Model ----
(***************************************************************************)
(* Admission control and streaming lifecycle of AppGenerateService         *)
(* (api/services/app_generate_service.py).                                 *)
(*                                                                         *)
(* Every request is one call of an entry point of AppGenerateService on    *)
(* one application of one tenant.  A call of generate is split at its      *)
(* operations on the shared store (the tenant's daily counter and the      *)
(* application's set of active tickets), so that concurrent calls          *)
(* interleave exactly there.  RateLimit, RateLimiter and the sequence that *)
(* RateLimit.generate returns are collaborators of the service: they are   *)
(* modelled from their contracts in the specification (sections 4.1-4.3).  *)
(***************************************************************************)
EXTENDS Integers, FiniteSets, Sequences, TLC

\* ------------------------------------------------------------------ bounds
\* Concurrent requests; the largest application limit and the largest global
\* limit of a deployment; the largest limit of the pairs the ceiling is
\* computed for on its own; the events a caller pulls from one sequence; and
\* the configured daily ceiling of a constrained tenant.
NumRequests == 3
MaxAppLimit == 2
MaxConfigLimit == 0
MaxPairLimit == 4
MaxEvents == 1
APP_DAILY_RATE_LIMIT == 2

Requests == 1..NumRequests

\* app.max_active_requests is optional: <<>> is None, <<n>> is the integer n.
None == <<>>
Some(n) == <<n>>
AppLimits == {None} \cup {Some(n) : n \in 0..MaxAppLimit}
ConfigLimits == 0..MaxConfigLimit
Plans == {"sandbox", "professional"}

Modes == {"completion", "agent-chat", "chat", "advanced-chat", "workflow", "unknown"}
InvokeFroms == {"debugger", "service-api"}

VARIABLES
    appLimit,            \* app_model.max_active_requests
    configLimit,         \* dify_config.APP_MAX_ACTIVE_REQUESTS
    billingEnabled,      \* dify_config.BILLING_ENABLED
    plan,                \* BillingService.get_info(tenant)["subscription"]["plan"]
    counter,             \* the tenant's counter in the current window
    active,              \* the application's set of active tickets
    admitted,            \* requests whose enter succeeded
    pc,                  \* where each call stands
    endpoint,            \* the entry point each request called
    streaming,           \* the streaming argument of each call
    max_active_request,  \* the local of generate, line 56
    result,              \* the value or exception on its way to the caller
    stream,              \* state of the sequence the caller received
    pos,                 \* events the caller pulled from the sequence
    streamRaised,        \* exception the strategy's sequence raised on a pull
    streamError,         \* exception the caller observed while pulling
    exitCalls,           \* invocations of rate_limit.exit for the request's token
    mode,                \* app_model.mode
    is_agent,            \* app_model.is_agent
    draft,               \* WorkflowService finds a draft workflow of the app
    published,           \* WorkflowService finds a published workflow of the app
    invoke_from,         \* the invoke_from argument of each call in flight
    invoked              \* generator classes whose generate each call invoked

vars == <<appLimit, configLimit, billingEnabled, plan, counter, active, admitted,
          pc, endpoint, streaming, max_active_request, result, stream,
          pos, streamRaised, streamError, exitCalls,
          mode, is_agent, draft, published, invoke_from, invoked>>

config == <<appLimit, configLimit, billingEnabled, plan, mode, is_agent, draft, published>>

\* ------------------------------------------------- _get_max_active_requests
Min(S) == CHOOSE x \in S : \A y \in S : x <= y

\* Variant: the filter keeps the zero limits (limit >= 0).
get_max_active_requests_ge(app_limit_opt, config_limit) ==
    LET app_limit == IF app_limit_opt = None THEN 0 ELSE app_limit_opt[1]
        limits == {limit \in {app_limit, config_limit} : limit >= 0}
    IN  IF limits # {} THEN Min(limits) ELSE 0

\* Variant: the larger of the non-zero limits.
get_max_active_requests_max(app_limit_opt, config_limit) ==
    LET app_limit == IF app_limit_opt = None THEN 0 ELSE app_limit_opt[1]
        limits == {limit \in {app_limit, config_limit} : limit > 0}
    IN  IF limits # {} THEN CHOOSE x \in limits : \A y \in limits : x >= y ELSE 0

\* Variant: a ceiling of 1 when neither limit is set.
get_max_active_requests_one(app_limit_opt, config_limit) ==
    LET app_limit == IF app_limit_opt = None THEN 0 ELSE app_limit_opt[1]
        limits == {limit \in {app_limit, config_limit} : limit > 0}
    IN  IF limits # {} THEN Min(limits) ELSE 1

\* Lines 145-150: an unset application limit reads as 0, the zero limits are
\* filtered out, and the result is the minimum of the rest, or 0.
get_max_active_requests(app_limit_opt, config_limit) ==
    LET app_limit == IF app_limit_opt = None THEN 0 ELSE app_limit_opt[1]
        limits == {limit \in {app_limit, config_limit} : limit > 0}
    IN  IF limits # {} THEN Min(limits) ELSE 0

\* ------------------------------------------- RateLimiter (section 4.1)
is_rate_limited(count) == count >= APP_DAILY_RATE_LIMIT

increment_rate_limit(count) == count + 1

\* ------------------------------------------- RateLimit (section 4.2)
\* enter admits when the ceiling is 0 or the active set is below the ceiling.
can_enter(act, ceiling) == ceiling = 0 \/ Cardinality(act) < ceiling

enter(act, token) == act \cup {token}

exit(act, token) == act \ {token}

\* RateLimit.generate (section 4.3): a synchronous result is handed on as it
\* is, a lazy sequence is wrapped into one that carries the release hook.
rate_limit_generate(output) ==
    IF output = "Mapping" THEN "Mapping" ELSE "RateLimitGenerator"

\* ------------------------------------------------------------ _get_workflow
\* Variant: the published workflow whatever the source of the call.
get_workflow_published(source, has_draft, has_published) ==
    IF ~has_published THEN "ValueError: Workflow not published" ELSE "Workflow"

\* has_draft and has_published say whether WorkflowService finds the
\* definition.
get_workflow(source, has_draft, has_published) ==
    IF source = "debugger"
    THEN IF ~has_draft THEN "ValueError: Workflow not initialized" ELSE "Workflow"
    ELSE IF ~has_published THEN "ValueError: Workflow not published" ELSE "Workflow"

\* ------------------------------------------------- the branches of generate
\* ValueError(f"Invalid app mode {app_model.mode}")
invalid_app_mode(app_mode) == "ValueError: Invalid app mode " \o app_mode

\* Variant: the branch is selected by the mode alone.
generate_branch_by_mode(app_mode, agent) ==
    IF app_mode = "completion" THEN "CompletionAppGenerator"
    ELSE IF app_mode = "agent-chat" THEN "AgentChatAppGenerator"
    ELSE IF app_mode = "chat" THEN "ChatAppGenerator"
    ELSE IF app_mode = "advanced-chat" THEN "AdvancedChatAppGenerator"
    ELSE IF app_mode = "workflow" THEN "WorkflowAppGenerator"
    ELSE invalid_app_mode(app_mode)

\* The generator class the if/elif chain of generate selects, lines 61-121.
generate_branch(app_mode, agent) ==
    IF app_mode = "completion" THEN "CompletionAppGenerator"
    ELSE IF app_mode = "agent-chat" \/ agent THEN "AgentChatAppGenerator"
    ELSE IF app_mode = "chat" THEN "ChatAppGenerator"
    ELSE IF app_mode = "advanced-chat" THEN "AdvancedChatAppGenerator"
    ELSE IF app_mode = "workflow" THEN "WorkflowAppGenerator"
    ELSE invalid_app_mode(app_mode)

NeedsWorkflow(branch) == branch \in {"AdvancedChatAppGenerator", "WorkflowAppGenerator"}

IsError(x) == x \notin {"none", "Mapping", "Generator", "RateLimitGenerator",
                        "Workflow", "CompletionAppGenerator", "AgentChatAppGenerator",
                        "ChatAppGenerator", "AdvancedChatAppGenerator",
                        "WorkflowAppGenerator"}

\* What a generation strategy may do when invoked: return a synchronous
\* result or a lazy sequence, or raise.  A streaming call is answered with a
\* sequence; a blocking call with a result, or with a sequence the strategy
\* produced internally.
StrategyOutcomes(is_streaming) ==
    (IF is_streaming THEN {"Generator"} ELSE {"Mapping", "Generator"})
        \cup {"RateLimitError", "Exception"}

\* Variant: the strategy's output is returned without RateLimit.generate.
dispatch_return_raw(output) == output

\* return rate_limit.generate(X.convert_to_event_stream(output), request_id):
\* convert_to_event_stream keeps a result a result and a sequence a sequence.
dispatch_return(output) == rate_limit_generate(output)

\* Variant: the provider's throttling signal is raised as it is.
except_RateLimitError_reraise(e) == e

\* except RateLimitError as e: raise InvokeRateLimitError(str(e))
except_RateLimitError(e) == "InvokeRateLimitError"

\* ---------------------------------------------------------------- Init
\* No call has been made yet.
NoCallYet ==
    /\ active = {}
    /\ admitted = {}
    /\ pc = [r \in Requests |-> "idle"]
    /\ endpoint = [r \in Requests |-> "none"]
    /\ streaming = [r \in Requests |-> FALSE]
    /\ max_active_request = [r \in Requests |-> None]
    /\ result = [r \in Requests |-> "none"]
    /\ stream = [r \in Requests |-> "none"]
    /\ pos = [r \in Requests |-> 0]
    /\ streamRaised = [r \in Requests |-> "none"]
    /\ streamError = [r \in Requests |-> "none"]
    /\ exitCalls = [r \in Requests |-> 0]
    /\ invoke_from = [r \in Requests |-> "none"]
    /\ invoked = [r \in Requests |-> <<>>]

\* A deployment: the limits, and the billing of the tenant.  With billing
\* disabled generate never looks the plan up (line 44).  The window's
\* counter of a tenant on another plan is what an earlier plan left in it:
\* nothing, or a used up quota.  The application is
\* a workflow application with a draft and no published workflow: its calls
\* reach the strategy from the debugger and fail the lookup from elsewhere.
Init ==
    /\ appLimit \in AppLimits
    /\ configLimit \in ConfigLimits
    /\ billingEnabled \in BOOLEAN
    /\ plan \in (IF billingEnabled THEN Plans ELSE {"sandbox"})
    /\ counter \in (IF billingEnabled /\ plan # "sandbox"
                    THEN {0, APP_DAILY_RATE_LIMIT} ELSE {0})
    /\ mode = "workflow" /\ is_agent = FALSE
    /\ draft = TRUE /\ published = FALSE
    /\ NoCallYet

\* Requests are numbered in the order of their calls.
CanCall(r) == pc[r] = "idle" /\ \A q \in Requests : q < r => pc[q] # "idle"

\* ------------------------------------------------------------- generate
\* Variant: a generate that applies the system level rate limiter to every
\* tenant.
generate_limits_all(r) ==
    /\ CanCall(r)
    /\ endpoint' = [endpoint EXCEPT ![r] = "generate"]
    /\ \E s \in BOOLEAN : streaming' = [streaming EXCEPT ![r] = s]
    /\ IF is_rate_limited(counter)
       THEN /\ pc' = [pc EXCEPT ![r] = "raised"]
            /\ result' = [result EXCEPT ![r] = "InvokeRateLimitError"]
       ELSE /\ pc' = [pc EXCEPT ![r] = "increment"]
            /\ UNCHANGED result
    /\ UNCHANGED <<config, invoke_from, invoked, counter, active, admitted, max_active_request,
                   stream, pos, streamRaised, streamError, exitCalls>>

\* Variant: a generate that increments without the check.
generate_unchecked(r) ==
    /\ CanCall(r)
    /\ endpoint' = [endpoint EXCEPT ![r] = "generate"]
    /\ \E s \in BOOLEAN : streaming' = [streaming EXCEPT ![r] = s]
    /\ pc' = [pc EXCEPT ![r] = IF billingEnabled /\ plan = "sandbox"
                                THEN "increment" ELSE "enter"]
    /\ UNCHANGED <<config, invoke_from, invoked, counter, active, admitted, max_active_request,
                   result, stream, pos, streamRaised, streamError, exitCalls>>

\* Variant: a generate without the system level rate limiter.
generate_unlimited(r) ==
    /\ CanCall(r)
    /\ endpoint' = [endpoint EXCEPT ![r] = "generate"]
    /\ \E s \in BOOLEAN : streaming' = [streaming EXCEPT ![r] = s]
    /\ pc' = [pc EXCEPT ![r] = "enter"]
    /\ UNCHANGED <<config, invoke_from, invoked, counter, active, admitted, max_active_request,
                   result, stream, pos, streamRaised, streamError, exitCalls>>

\* Lines 43-52: the call, and the system level rate limiter's check.
generate(r) ==
    /\ CanCall(r)
    /\ endpoint' = [endpoint EXCEPT ![r] = "generate"]
    /\ \E s \in BOOLEAN : streaming' = [streaming EXCEPT ![r] = s]
    /\ IF billingEnabled /\ plan = "sandbox"
       THEN IF is_rate_limited(counter)
            THEN /\ pc' = [pc EXCEPT ![r] = "raised"]
                 /\ result' = [result EXCEPT ![r] = "InvokeRateLimitError"]
            ELSE /\ pc' = [pc EXCEPT ![r] = "increment"]
                 /\ UNCHANGED result
       ELSE /\ pc' = [pc EXCEPT ![r] = "enter"]
            /\ UNCHANGED result
    /\ UNCHANGED <<config, invoke_from, invoked, counter, active, admitted, max_active_request, stream,
                   pos, streamRaised, streamError, exitCalls>>

\* Variant: a call is charged two units of the quota.
generate_increment_twice(r) ==
    /\ pc[r] = "increment"
    /\ counter' = increment_rate_limit(increment_rate_limit(counter))
    /\ pc' = [pc EXCEPT ![r] = "enter"]
    /\ UNCHANGED <<config, invoke_from, invoked, active, admitted, endpoint, streaming, max_active_request,
                   result, stream, pos, streamRaised, streamError, exitCalls>>

\* Line 53: cls.system_rate_limiter.increment_rate_limit(tenant_id).
generate_increment(r) ==
    /\ pc[r] = "increment"
    /\ counter' = increment_rate_limit(counter)
    /\ pc' = [pc EXCEPT ![r] = "enter"]
    /\ UNCHANGED <<config, invoke_from, invoked, active, admitted, endpoint, streaming, max_active_request,
                   result, stream, pos, streamRaised, streamError, exitCalls>>

\* Lines 55-60: the ceiling, the RateLimit object, the token and enter.
\* The token of request r is r: gen_request_key draws a fresh identifier.
generate_enter(r) ==
    /\ pc[r] = "enter"
    /\ LET ceiling == get_max_active_requests(appLimit, configLimit)
       IN  /\ max_active_request' = [max_active_request EXCEPT ![r] = Some(ceiling)]
           /\ IF can_enter(active, ceiling)
              THEN /\ active' = enter(active, r)
                   /\ admitted' = admitted \cup {r}
                   /\ pc' = [pc EXCEPT ![r] = "dispatch"]
                   /\ UNCHANGED result
              ELSE /\ pc' = [pc EXCEPT ![r] = "except"]
                   /\ result' = [result EXCEPT ![r] = "AppInvokeQuotaExceededError"]
                   /\ UNCHANGED <<active, admitted>>
    /\ UNCHANGED <<config, invoke_from, invoked, counter, endpoint, streaming, stream, pos, streamRaised, streamError,
                   exitCalls>>

\* Where control goes from the try block with outcome x of the branch taken:
\* a value goes to the finally block, an exception to the except clauses.
AfterTry(r, x) ==
    IF IsError(x)
    THEN /\ pc' = [pc EXCEPT ![r] = "except"]
         /\ result' = [result EXCEPT ![r] = x]
    ELSE /\ pc' = [pc EXCEPT ![r] = "finally"]
         /\ result' = [result EXCEPT ![r] = dispatch_return(x)]

\* Lines 61-121: the branch on the application's mode, the workflow lookup
\* of the two workflow branches, and the invocation of the strategy.  The
\* invoke_from argument is first read here.
generate_dispatch(r) ==
    /\ pc[r] = "dispatch"
    /\ \E source \in InvokeFroms :
         LET branch == generate_branch(mode, is_agent)
             workflow == IF NeedsWorkflow(branch)
                         THEN get_workflow(source, draft, published) ELSE "none"
         IN  /\ invoke_from' = [invoke_from EXCEPT ![r] = source]
             /\ IF IsError(branch)
                THEN AfterTry(r, branch) /\ UNCHANGED invoked
                ELSE IF IsError(workflow)
                THEN AfterTry(r, workflow) /\ UNCHANGED invoked
                ELSE /\ invoked' = [invoked EXCEPT ![r] = Append(@, branch)]
                     /\ \E x \in StrategyOutcomes(streaming[r]) : AfterTry(r, x)
    /\ UNCHANGED <<config, counter, active, admitted, endpoint, streaming,
                   max_active_request, stream, pos, streamRaised, streamError, exitCalls>>

\* Variants: a finally block that releases whatever streaming is, and one
\* that never releases.
finally_exits_always(is_streaming) == TRUE

finally_exits_never(is_streaming) == FALSE

\* Whether the finally block releases the ticket: if not streaming.
finally_exits(is_streaming) == ~is_streaming

\* Variant: a handler whose release empties the application's active set.
except_Exception_reset(act, token) == {}

\* except Exception: rate_limit.exit(request_id)
except_Exception(act, token) == exit(act, token)

\* Lines 122-129: an exception unwinds through the except clause that
\* matches it and the finally block to the caller.  RateLimitError is
\* translated by its clause, which releases nothing; any other exception is
\* released for and re-raised.
generate_except(r) ==
    /\ pc[r] = "except"
    /\ LET throttled == result[r] = "RateLimitError"
           handled == IF throttled THEN active ELSE except_Exception(active, r)
           calls == IF throttled THEN 0 ELSE 1
       IN  /\ result' = [result EXCEPT ![r] =
                            IF throttled THEN except_RateLimitError(@) ELSE @]
           /\ IF finally_exits(streaming[r])
              THEN /\ active' = exit(handled, r)
                   /\ exitCalls' = [exitCalls EXCEPT ![r] = @ + calls + 1]
              ELSE /\ active' = handled
                   /\ exitCalls' = [exitCalls EXCEPT ![r] = @ + calls]
    /\ pc' = [pc EXCEPT ![r] = "raised"]
    /\ invoke_from' = [invoke_from EXCEPT ![r] = "none"]
    /\ UNCHANGED <<config, invoked, counter, admitted, endpoint, streaming, max_active_request,
                   stream, pos, streamRaised, streamError>>

\* Lines 127-129: the finally block after a return statement, then control
\* is back at the caller.
generate_finally(r) ==
    /\ pc[r] = "finally"
    /\ IF finally_exits(streaming[r])
       THEN /\ active' = exit(active, r)
            /\ exitCalls' = [exitCalls EXCEPT ![r] = @ + 1]
       ELSE UNCHANGED <<active, exitCalls>>
    /\ pc' = [pc EXCEPT ![r] = "returned"]
    /\ stream' = [stream EXCEPT ![r] =
                    IF result[r] \in {"Generator", "RateLimitGenerator"}
                    THEN "open" ELSE @]
    /\ invoke_from' = [invoke_from EXCEPT ![r] = "none"]
    /\ UNCHANGED <<config, invoked, counter, admitted, endpoint, streaming, max_active_request,
                   result, pos, streamRaised, streamError>>

\* --------------------------------- the sequence the caller received (4.3)
\* close of the sequence: a wrapped sequence releases its ticket, a raw one
\* has no ticket to release.  A closed sequence has let go of the strategy's
\* sequence, and with it of its position.
Close(r) ==
    IF result[r] = "RateLimitGenerator"
    THEN /\ active' = exit(active, r)
         /\ exitCalls' = [exitCalls EXCEPT ![r] = @ + 1]
    ELSE UNCHANGED <<active, exitCalls>>

\* An exception of the strategy's sequence reaches the caller as it is.
forward(e) == e

\* The caller pulls the next event: the strategy's sequence yields one.
Pull(r) ==
    /\ pc[r] = "returned" /\ stream[r] = "open"
    /\ pos[r] < MaxEvents
    /\ pos' = [pos EXCEPT ![r] = @ + 1]
    /\ UNCHANGED <<config, invoke_from, invoked, counter, active, admitted, pc, endpoint, streaming,
                   max_active_request, result, stream, streamRaised, streamError, exitCalls>>

\* The caller pulls and the strategy's sequence is exhausted.
PullEnd(r) ==
    /\ pc[r] = "returned" /\ stream[r] = "open"
    /\ Close(r)
    /\ stream' = [stream EXCEPT ![r] = "closed"]
    /\ pos' = [pos EXCEPT ![r] = 0]
    /\ UNCHANGED <<config, invoke_from, invoked, counter, admitted, pc, endpoint, streaming,
                   max_active_request, result, streamRaised, streamError>>

\* The caller pulls and the strategy's sequence raises: the sequence is
\* closed and the exception is forwarded to the caller.
PullRaise(r) ==
    /\ pc[r] = "returned" /\ stream[r] = "open"
    /\ \E e \in {"RateLimitError", "Exception"} :
          /\ streamRaised' = [streamRaised EXCEPT ![r] = e]
          /\ streamError' = [streamError EXCEPT ![r] = forward(e)]
    /\ Close(r)
    /\ stream' = [stream EXCEPT ![r] = "closed"]
    /\ pos' = [pos EXCEPT ![r] = 0]
    /\ UNCHANGED <<config, invoke_from, invoked, counter, admitted, pc, endpoint, streaming,
                   max_active_request, result>>

\* The caller stops pulling before the sequence is exhausted.
Abandon(r) ==
    /\ pc[r] = "returned" /\ stream[r] = "open"
    /\ stream' = [stream EXCEPT ![r] = "abandoned"]
    /\ UNCHANGED <<config, invoke_from, invoked, counter, active, admitted, pc, endpoint, streaming,
                   max_active_request, result, pos, streamRaised, streamError, exitCalls>>

\* The finalization hook of an abandoned sequence runs.
Finalize(r) ==
    /\ pc[r] = "returned" /\ stream[r] = "abandoned"
    /\ Close(r)
    /\ stream' = [stream EXCEPT ![r] = "closed"]
    /\ pos' = [pos EXCEPT ![r] = 0]
    /\ UNCHANGED <<config, invoke_from, invoked, counter, admitted, pc, endpoint, streaming,
                   max_active_request, result, streamRaised, streamError>>

\* ----------------------- generate_single_iteration, generate_single_loop
\* Variant: a single step run that goes through the admission of generate.
generate_single_admitted(r) ==
    /\ CanCall(r)
    /\ endpoint' = [endpoint EXCEPT ![r] = "single_step"]
    /\ streaming' = [streaming EXCEPT ![r] = TRUE]
    /\ pc' = [pc EXCEPT ![r] = "enter"]
    /\ UNCHANGED <<config, invoke_from, invoked, counter, active, admitted, max_active_request, result,
                   stream, pos, streamRaised, streamError, exitCalls>>

\* What a single step run ends with: the branch on the mode, the draft
\* workflow, and what the strategy's single step run does.
SingleOutcomes ==
    IF mode \notin {"advanced-chat", "workflow"}
    THEN {invalid_app_mode(mode)}
    ELSE LET workflow == get_workflow("debugger", draft, published)
         IN  IF IsError(workflow) THEN {workflow} ELSE StrategyOutcomes(TRUE)

\* The body both entry points share: the branch on the mode, the draft
\* workflow and the strategy's single step run, handed back unwrapped.  The
\* caller's consumption of that sequence touches neither limiter.
generate_single(r) ==
    /\ CanCall(r)
    /\ endpoint' = [endpoint EXCEPT ![r] = "single_step"]
    /\ \E out \in SingleOutcomes :
         /\ result' = [result EXCEPT ![r] = out]
         /\ pc' = [pc EXCEPT ![r] = IF IsError(out) THEN "raised" ELSE "returned"]
    /\ UNCHANGED <<config, invoke_from, invoked, counter, active, admitted, streaming, max_active_request,
                   stream, pos, streamRaised, streamError, exitCalls>>

generate_single_iteration(r) == generate_single(r)

generate_single_loop(r) == generate_single(r)

\* ---------------------------------------------------------------- Next
Next ==
    \E r \in Requests :
        \/ generate(r)
        \/ generate_increment(r)
        \/ generate_enter(r)
        \/ generate_dispatch(r)
        \/ generate_except(r)
        \/ generate_finally(r)
        \/ Pull(r)
        \/ PullEnd(r)
        \/ PullRaise(r)
        \/ Abandon(r)
        \/ Finalize(r)
        \/ generate_single_iteration(r)
        \/ generate_single_loop(r)

Spec == Init /\ [][Next]_vars

\* ------------------------------------------- the ceiling on its own
\* The ceiling of generate for every pair of limits up to MaxPairLimit, on
\* calls that run up to their admission.
CeilingInit ==
    /\ appLimit \in {None} \cup {Some(n) : n \in 0..MaxPairLimit}
    /\ configLimit \in 0..MaxPairLimit
    /\ billingEnabled \in BOOLEAN
    /\ plan = "sandbox"
    /\ counter = 0
    /\ mode = "workflow" /\ is_agent = FALSE
    /\ draft = TRUE /\ published = FALSE
    /\ NoCallYet

CeilingNext ==
    \E r \in Requests :
        \/ generate(r)
        \/ generate_increment(r)
        \/ generate_enter(r)

CeilingSpec == CeilingInit /\ [][CeilingNext]_vars

\* ------------------------------------------- concurrent checks
\* A constrained tenant that has used none, some or all of its quota in the
\* window, on calls that run up to their admission.
RaceInit ==
    /\ appLimit = None
    /\ configLimit = 0
    /\ billingEnabled = TRUE
    /\ plan = "sandbox"
    /\ counter \in 0..APP_DAILY_RATE_LIMIT
    /\ mode = "workflow" /\ is_agent = FALSE
    /\ draft = TRUE /\ published = FALSE
    /\ NoCallYet

RaceSpec == RaceInit /\ [][CeilingNext]_vars

\* ------------------------------------------- the finalization hook runs
\* One deployment, a constrained tenant and a ceiling of 1, in which the
\* finalization hook of an abandoned sequence is not postponed forever.
FairInit ==
    /\ appLimit = Some(1)
    /\ configLimit = 0
    /\ billingEnabled = TRUE
    /\ plan = "sandbox"
    /\ counter = 0
    /\ mode = "workflow" /\ is_agent = FALSE
    /\ draft = TRUE /\ published = FALSE
    /\ NoCallYet

FairSpec == FairInit /\ [][Next]_vars /\ \A r \in Requests : WF_vars(Finalize(r))

\* ------------------------------------------- the application's kind
\* One deployment, a constrained tenant and a ceiling of 2, for every mode
\* and is_agent flag of the application and every state of its workflows,
\* on calls of generate.
DispatchInit ==
    /\ appLimit = Some(2)
    /\ configLimit = 0
    /\ billingEnabled = TRUE
    /\ plan = "sandbox"
    /\ counter = 0
    /\ mode \in Modes /\ is_agent \in BOOLEAN
    /\ draft \in BOOLEAN /\ published \in BOOLEAN
    /\ NoCallYet

\* The calls of generate, up to their return to the caller.
DispatchNext ==
    \E r \in Requests :
        \/ generate(r)
        \/ generate_increment(r)
        \/ generate_enter(r)
        \/ generate_dispatch(r)
        \/ generate_except(r)
        \/ generate_finally(r)

DispatchSpec == DispatchInit /\ [][DispatchNext]_vars

\* ------------------------------------------- sequential callers
\* A constrained tenant, an application without a ceiling or with a ceiling
\* of 1, and callers that make a call only when every earlier call is back
\* at its caller.
SequentialInit ==
    /\ appLimit \in {None, Some(1)}
    /\ configLimit = 0
    /\ billingEnabled = TRUE
    /\ plan = "sandbox"
    /\ counter = 0
    /\ mode = "workflow" /\ is_agent = FALSE
    /\ draft = TRUE /\ published = FALSE
    /\ NoCallYet

AllBack == \A q \in Requests : pc[q] \in {"idle", "returned", "raised"}

SequentialNext ==
    \E r \in Requests :
        \/ AllBack /\ generate(r)
        \/ generate_increment(r)
        \/ generate_enter(r)
        \/ generate_dispatch(r)
        \/ generate_except(r)
        \/ generate_finally(r)
        \/ Pull(r)
        \/ PullEnd(r)
        \/ PullRaise(r)
        \/ Abandon(r)
        \/ Finalize(r)
        \/ AllBack /\ generate_single_iteration(r)
        \/ AllBack /\ generate_single_loop(r)

SequentialSpec == SequentialInit /\ [][SequentialNext]_vars

\* ============================================================== claims
\* The effective ceiling as the specification words it: the smaller of the
\* two limits when both are set, the one that is set when only one is, and 0
\* (unlimited) when neither is.
EffectiveCeiling ==
    LET a == IF appLimit = None THEN 0 ELSE appLimit[1]
        c == configLimit
    IN  CASE a = 0 /\ c = 0 -> 0
          [] a = 0 /\ c # 0 -> c
          [] a # 0 /\ c = 0 -> a
          [] OTHER -> IF a < c THEN a ELSE c

\* The tenant is on the constrained plan of a deployment with billing.
Constrained == billingEnabled /\ plan = "sandbox"

\* The calls of generate that went through enter, and those it rejected.
Attempted == {r \in Requests : max_active_request[r] # None}
Rejected == {r \in Requests : result[r] = "AppInvokeQuotaExceededError"}

\* The call of request r is over, and so is the sequence it returned.
Finished(r) ==
    \/ pc[r] = "raised"
    \/ pc[r] = "returned" /\ stream[r] \in {"none", "closed"}

\* C1: with an effective ceiling N > 0 the application never has more than N
\* simultaneously active tickets, however the calls interleave.
C1_ActiveWithinCeiling ==
    EffectiveCeiling > 0 => Cardinality(active) <= EffectiveCeiling

\* The application is at a ceiling of 2 and a third call was turned away.
C1_Witness ==
    /\ EffectiveCeiling = 2
    /\ Cardinality(active) = 2
    /\ Rejected # {}

\* C2: for every admitted request whose call and sequence are over, exit was
\* invoked for its token exactly once, on every path of generate.
C2_ExitExactlyOnce ==
    \A r \in admitted : Finished(r) => exitCalls[r] = 1

\* C3: when generate raises after enter succeeded, the request's token is no
\* longer in the active set as the exception reaches the caller.
C3_ReleasedBeforeRaise ==
    \A r \in admitted : pc[r] = "raised" => r \notin active

\* C5: when a call with streaming=False is back at the caller, returned or
\* raised, its token is not in the active set.
C5_BlockingCallReleased ==
    \A r \in admitted :
        ~streaming[r] /\ pc[r] \in {"returned", "raised"} => r \notin active

\* A blocking call whose strategy produced a sequence is back at the caller
\* with the sequence still open and the ticket gone.
C5_Witness ==
    \E r \in admitted :
        /\ ~streaming[r] /\ pc[r] = "returned"
        /\ result[r] = "RateLimitGenerator" /\ stream[r] = "open"
        /\ r \notin active

\* C6: a streaming call holds its ticket from enter on, through the return
\* of generate, for as long as its sequence is open.
C6_StreamHoldsTicket ==
    \A r \in admitted :
        /\ streaming[r]
        /\ \/ pc[r] = "dispatch"
           \/ pc[r] = "finally" /\ ~IsError(result[r])
           \/ pc[r] = "returned" /\ stream[r] = "open"
        => r \in active

\* A stream that is being consumed keeps another call out.
C6_Witness ==
    \E r \in admitted, q \in Rejected :
        /\ streaming[r] /\ pc[r] = "returned" /\ stream[r] = "open"
        /\ pos[r] = MaxEvents
        /\ r \in active

\* C4: a streamed response the caller abandons, after any number of events,
\* still has its ticket released in the end.
C4_AbandonedStreamReleased ==
    \A r \in Requests :
        (streaming[r] /\ stream[r] = "abandoned") ~> (r \notin active)

\* A streamed response abandoned after an event, its ticket still held.
C4_Witness ==
    \E r \in admitted :
        /\ streaming[r] /\ stream[r] = "abandoned" /\ pos[r] = MaxEvents
        /\ r \in active

\* C7: when the strategy's sequence raises the provider's throttling signal
\* while the caller pulls, the caller observes InvokeRateLimitError and exit
\* was invoked exactly once.
C7_MidStreamThrottlingTranslated ==
    \A r \in admitted :
        streaming[r] /\ streamRaised[r] = "RateLimitError"
        => streamError[r] = "InvokeRateLimitError" /\ exitCalls[r] = 1

\* C8 as claimed: a single step run that was not turned away holds a ticket
\* of the application.
C8_SingleStepHoldsTicket ==
    \A r \in Requests :
        endpoint[r] = "single_step" /\ pc[r] = "returned" => r \in active

\* C8 as amended: the single step entry points apply no admission rule: a
\* call is never turned away by either limiter, holds no ticket, and leaves
\* the tenant's counter to the calls of generate.
C8_SingleStepNoAdmission ==
    /\ \A r \in Requests :
          endpoint[r] = "single_step"
          => /\ pc[r] \in {"returned", "raised"}
             /\ result[r] \notin {"InvokeRateLimitError", "AppInvokeQuotaExceededError"}
             /\ r \notin active /\ r \notin admitted
             /\ exitCalls[r] = 0
    /\ Constrained => counter <= Cardinality({r \in Requests : endpoint[r] = "generate"})

\* A single step run is handed back while the tenant is rate limited and the
\* application is at its ceiling.
C8_Witness ==
    /\ billingEnabled /\ plan = "sandbox" /\ is_rate_limited(counter)
    /\ EffectiveCeiling > 0 /\ Cardinality(active) = EffectiveCeiling
    /\ \E r \in Requests : endpoint[r] = "single_step" /\ pc[r] = "returned"

\* C9: the ceiling generate computes is 0 when both limits are 0 (an unset
\* application limit reads as 0), the non-zero one when exactly one is 0, and
\* the smaller one otherwise.
C9_CeilingIsMinOfNonZero ==
    \A r \in Attempted : max_active_request[r] = Some(EffectiveCeiling)

\* Two different non-zero limits, the global one the smaller.
C9_Witness ==
    \E r \in Attempted :
        /\ appLimit = Some(MaxPairLimit) /\ configLimit = MaxPairLimit - 1
        /\ max_active_request[r] = Some(MaxPairLimit - 1)

\* With a ceiling N > 0: every call that went through enter was either
\* admitted or rejected; while no ticket has been released, exactly
\* min(M, N) of M calls were admitted and the others rejected; and enter
\* never waits.
C10_State ==
    EffectiveCeiling > 0 =>
        /\ Attempted = admitted \cup Rejected
        /\ admitted \cap Rejected = {}
        /\ admitted \subseteq active =>
              Cardinality(admitted) = Min({Cardinality(Attempted), EffectiveCeiling})
        /\ \A r \in Requests : pc[r] = "enter" => ENABLED generate_enter(r)

\* A call is rejected only when N tickets are active.
C10_Step ==
    \A r \in Requests :
        EffectiveCeiling > 0 /\ r \in Rejected' /\ r \notin Rejected
        => Cardinality(active) >= EffectiveCeiling

\* C10: admission accepts at once or rejects: with a ceiling N > 0 and no
\* release in between, of M > N concurrent calls exactly N are admitted and
\* M - N rejected; no call waits for a slot, and none is rejected while fewer
\* than N tickets are active.
C10_AcceptOrReject == []C10_State /\ [][C10_Step]_vars

\* Ceiling 2, three calls, none released: two admitted, one rejected.
C10_Witness ==
    /\ EffectiveCeiling = 2
    /\ Cardinality(Attempted) = 3
    /\ admitted \subseteq active
    /\ Cardinality(admitted) = 2 /\ Cardinality(Rejected) = 1

\* The call of request r was turned away by the system rate limiter: it
\* raised InvokeRateLimitError before it computed its ceiling.
RateLimited(r) ==
    /\ endpoint[r] = "generate" /\ pc[r] = "raised"
    /\ result[r] = "InvokeRateLimitError" /\ max_active_request[r] = None

\* The position of request r among the calls of generate.
GenIndex(r) == Cardinality({q \in Requests : q <= r /\ endpoint[q] = "generate"})

\* C11: for a constrained tenant with daily ceiling C, of the sequential
\* calls of generate inside one window the first C pass the system rate
\* limiter and every later one is rejected with InvokeRateLimitError.
C11_SequentialCallsLimited ==
    Constrained =>
        \A r \in Requests :
            endpoint[r] = "generate"
            => (RateLimited(r) <=> GenIndex(r) > APP_DAILY_RATE_LIMIT)

\* The call after the first C calls of generate was rejected, and the C
\* calls before it went on to their admission.
C11_Witness ==
    /\ Constrained
    /\ \E r \in Requests :
          /\ GenIndex(r) = APP_DAILY_RATE_LIMIT + 1 /\ RateLimited(r)
          /\ counter = APP_DAILY_RATE_LIMIT
          /\ \A q \in Requests : q < r => q \in Attempted

\* A step on which exit is invoked for the token of request r.
ExitsOn(r) == exitCalls'[r] > exitCalls[r]

C13_ZeroCeilingAdmitsAll ==
    EffectiveCeiling = 0 =>
        /\ Rejected = {}
        /\ Attempted = admitted
        /\ \A r \in Attempted : max_active_request[r] = Some(0)
        /\ \A r \in Requests :
              pc[r] = "enter" => can_enter(active, get_max_active_requests(appLimit, configLimit))

\* With a ceiling of 0 every request holds a ticket at the same time.
C13_Witness ==
    /\ EffectiveCeiling = 0
    /\ active = Requests
    /\ admitted = Requests

\* The application is served by the advanced-chat or the workflow branch.
WorkflowApp == mode \in {"advanced-chat", "workflow"} /\ ~is_agent

WorkflowErrors == {"ValueError: Workflow not initialized", "ValueError: Workflow not published"}

\* The call of request r is past its dispatch and not yet back.
Dispatched(r) == endpoint[r] = "generate" /\ invoke_from[r] # "none"

StrategyOf ==
    [m \in {"completion", "agent-chat", "chat", "advanced-chat", "workflow"} |->
        CASE m = "completion" -> "CompletionAppGenerator"
          [] m = "agent-chat" -> "AgentChatAppGenerator"
          [] m = "chat" -> "ChatAppGenerator"
          [] m = "advanced-chat" -> "AdvancedChatAppGenerator"
          [] m = "workflow" -> "WorkflowAppGenerator"]

\* The admitted calls of generate that are past their dispatch and did not
\* fail the workflow lookup.
PastDispatch ==
    {r \in admitted : /\ endpoint[r] = "generate"
                      /\ pc[r] \in {"except", "finally", "raised", "returned"}
                      /\ result[r] \notin WorkflowErrors}

\* C15 as claimed: an admitted call invokes exactly one strategy, the one
\* bound to the application's mode, whatever the is_agent flag; a mode
\* outside the closed set invokes none and fails with the mode in the error.
C15_StrategyOfDeclaredMode ==
    \A r \in PastDispatch :
        IF mode \in DOMAIN StrategyOf
        THEN invoked[r] = <<StrategyOf[mode]>>
        ELSE invoked[r] = <<>> /\ result[r] = "ValueError: Invalid app mode " \o mode

\* C15 as amended: an admitted call invokes exactly one strategy, selected in
\* the order of the chain: completion for the mode completion; else
\* agent-chat for the mode agent-chat or a set is_agent flag, whatever the
\* mode; else the strategy bound to the mode; and a mode outside the closed
\* set of an application that is no agent invokes none and fails with the
\* mode in the error.
C15_StrategyOfChain ==
    \A r \in PastDispatch :
        IF mode = "completion"
        THEN invoked[r] = <<"CompletionAppGenerator">>
        ELSE IF mode = "agent-chat" \/ is_agent
        THEN invoked[r] = <<"AgentChatAppGenerator">>
        ELSE IF mode \in DOMAIN StrategyOf
        THEN invoked[r] = <<StrategyOf[mode]>>
        ELSE /\ invoked[r] = <<>>
             /\ result[r] = "ValueError: Invalid app mode " \o mode
             /\ pc[r] \in {"except", "raised"}

\* A workflow application whose is_agent flag is set was answered by the
\* agent-chat strategy.
C15_Witness ==
    /\ mode = "workflow" /\ is_agent
    /\ \E r \in PastDispatch :
          pc[r] = "returned" /\ invoked[r] = <<"AgentChatAppGenerator">>

\* A call the system rate limiter turned away never reached enter and
\* invoked nothing; a call enter turned away has no ticket and invoked
\* nothing.
C16_State ==
    \A r \in Requests :
        /\ RateLimited(r)
           => /\ r \notin Attempted /\ r \notin admitted /\ r \notin active
              /\ invoked[r] = <<>> /\ exitCalls[r] = 0
        /\ r \in Rejected
           => r \notin admitted /\ r \notin active /\ invoked[r] = <<>>

\* The step that turns a call away at the system rate limiter leaves the
\* counter and the active set alone; the steps of a call that enter turns
\* away, its rejection and its unwinding, leave the active set alone.
C16_Step ==
    \A r \in Requests :
        /\ RateLimited(r)' /\ ~RateLimited(r)
           => counter' = counter /\ active' = active
        /\ r \in Rejected' /\ pc'[r] # pc[r]
           => active' = active /\ admitted' = admitted

\* C16: admission failures short-circuit: a call rejected by the system rate
\* limiter attempts no enter, invokes no strategy and leaves the counter and
\* the active set unchanged; a call rejected by enter invokes no strategy,
\* gets no ticket and leaves the active set as it was.
C16_AdmissionFailuresShortCircuit == []C16_State /\ [][C16_Step]_vars

\* One call holds the only ticket, the next was turned away by enter and is
\* back at its caller, and the one after that by the system rate limiter.
C16_Witness ==
    /\ Constrained /\ EffectiveCeiling = 1
    /\ Cardinality(active) = 1
    /\ \E q \in Rejected : pc[q] = "raised" /\ exitCalls[q] >= 1
    /\ \E r \in Requests : RateLimited(r)

\* An exception of the try block reaches the caller, translated exactly when
\* it is the provider's throttling signal.
C17_Step ==
    \A r \in admitted :
        pc[r] = "except" /\ pc'[r] # "except"
        => /\ pc'[r] = "raised"
           /\ result'[r] = "InvokeRateLimitError" <=> result[r] = "RateLimitError"
           /\ result[r] # "RateLimitError" => result'[r] = result[r]

\* A call returns a value and raises an exception, never the other way.
C17_State ==
    \A r \in admitted :
        /\ pc[r] \in {"except", "raised"} => IsError(result[r])
        /\ pc[r] \in {"finally", "returned"} => ~IsError(result[r])

\* C17: an exception raised inside generate after admission reaches the
\* caller as InvokeRateLimitError if and only if it was RateLimitError, every
\* other exception reaches the caller unchanged, and generate never returns
\* normally when the strategy raised.
C17_ErrorsNotReclassified == []C17_State /\ [][C17_Step]_vars

\* The provider's throttling signal reached one caller translated, and the
\* strategy's own exception another caller as it was.
C17_Witness ==
    \E r, q \in admitted :
        /\ pc[r] = "raised" /\ result[r] = "InvokeRateLimitError" /\ Len(invoked[r]) = 1
        /\ pc[q] = "raised" /\ result[q] = "Exception" /\ Len(invoked[q]) = 1

\* No call of an unconstrained tenant stands between check and increment or
\* was turned away by the system rate limiter.
C18_State ==
    ~Constrained =>
        \A r \in Requests : pc[r] # "increment" /\ ~RateLimited(r)

\* C18: the system rate limiter is applied to constrained tenants only: with
\* billing disabled, or a plan other than sandbox, generate never rejects a
\* call for the tenant's quota, whatever the counter holds, and no step
\* changes the counter, for any number of calls.
C18_UnconstrainedNotLimited ==
    []C18_State /\ [][~Constrained => counter' = counter]_vars

\* Billing is enabled, the plan is not sandbox and the counter holds a used
\* up quota: every call went through enter.
C18_Witness ==
    /\ billingEnabled /\ plan # "sandbox"
    /\ counter = APP_DAILY_RATE_LIMIT
    /\ Attempted = Requests
    /\ \A r \in Requests : pc[r] \in {"returned", "raised"}

\* The calls between their check and their increment.
InWindow == {r \in Requests : pc[r] = "increment"}

\* With P = NumRequests concurrent calls the counter, and the increments
\* still due, stay within C + P - 1.
C19_State ==
    Constrained =>
        counter + Cardinality(InWindow) <= APP_DAILY_RATE_LIMIT + NumRequests - 1

\* A call whose check starts when the counter has reached C is rejected.
C19_Step ==
    \A r \in Requests :
        /\ Constrained /\ counter >= APP_DAILY_RATE_LIMIT
        /\ pc[r] = "idle" /\ endpoint'[r] = "generate"
        => RateLimited(r)'

\* C19: check and increment are two steps, so P concurrent calls of one
\* constrained tenant can drive the counter above the ceiling C, but the
\* counter never exceeds C + P - 1, and once it has reached C every call
\* whose check starts afterwards is rejected.
C19_BoundedOverAdmission == []C19_State /\ [][C19_Step]_vars

\* One unit of quota was left and every one of the P concurrent calls took
\* it: the counter stands at C + P - 1, above the ceiling.
C19_Witness ==
    /\ Constrained
    /\ counter = APP_DAILY_RATE_LIMIT + NumRequests - 1
    /\ counter > APP_DAILY_RATE_LIMIT
    /\ \A r \in Requests : endpoint[r] = "generate" /\ pc[r] \notin {"idle", "increment"}

\* The calls of generate that passed the check of the system rate limiter,
\* and those of them that are past their increment.
Passed == {r \in Requests : endpoint[r] = "generate" /\ ~RateLimited(r)}
Charged == Passed \ InWindow

\* The calls that were charged and then failed: turned away by enter, or
\* raised from the try block.
ChargedAndFailed == {r \in Charged : pc[r] = "raised"}

\* C20: the quota is charged before the concurrency admission and never
\* refunded: the counter of a constrained tenant is the number of calls that
\* passed the check and are past their increment, whatever became of them
\* afterwards (turned away by enter, an invalid mode, a missing workflow, a
\* strategy that raised), and no step decreases it.
C20_ChargedNeverRefunded ==
    /\ [](Constrained => counter = Cardinality(Charged))
    /\ [][counter' >= counter]_vars

\* An application of an unknown mode: all three calls were charged, one was
\* then turned away by enter and the others failed on the mode.
C20_Witness ==
    /\ Constrained /\ mode = "unknown" /\ ~is_agent
    /\ counter = NumRequests
    /\ Rejected # {}
    /\ ChargedAndFailed = Requests

====
